---------------------------- MODULE Spec2Model ----------------------------
(***************************************************************************)
(* Model of the lightonai/gists notebooks:                                 *)
(*   - the feature-extraction notebook (get_conv_features, generate_RM,    *)
(*     compute_dot_split, get_rand_features_GPU, get_random_features and   *)
(*     the ridge-classifier cell),                                         *)
(*   - the double-descent notebook (Autoencoder, its training loop, the    *)
(*     OPU projection cell and the accuracy sweep),                        *)
(*   - the Julia script that calls the vendor SDK.                         *)
(* Every function is modelled by its own group of variables and its own    *)
(* specification; a group that a specification does not run stays parked   *)
(* at its "off" value:                                                     *)
(*   SpecConv   get_conv_features                                          *)
(*   SpecGpu    generate_RM, then get_rand_features_GPU                    *)
(*   SpecTrain  the training loop of the autoencoder                       *)
(*   SpecEnc    Autoencoder.encode on the train and the test data          *)
(*   SpecPipe   each script as the sequence of its library calls, any of   *)
(*              which may raise                                            *)
(*   SpecSdk    the data of each script from its source to the vendor SDK  *)
(***************************************************************************)
EXTENDS Integers, Sequences, FiniteSets, TLC

VARIABLES
    \* ---- get_conv_features (src/unnamed/part_000:114-176)
    c_pc,            \* "loop" | "encode" | "done" | "error" | "off"
    n_images,        \* len(loader.dataset)
    batch_size,      \* loader.batch_size
    order,           \* the order in which the loader serves the samples
    dshift,          \* selects the dataset (which values the model outputs)
    conv_i,          \* i of enumerate(loader): the batches served so far
    conv_features,   \* the float tensor; an entry is <<>> (never written) or <<v>>
    labels,          \* the uint8 array; an entry is <<>> (never written) or <<l>>
    conv_encoded,    \* the tensor conv_features is rebound to by (conv_features > 0)
    cf_writes,       \* history: how often each row of conv_features was written
    lab_writes,      \* history: how often each entry of labels was written
    cf_src,          \* history: the sample last written into each row (0: none)
    lab_src,         \* history: the sample last written into each label (0: none)
    oob_writes,      \* history: values of a batch that no row 1..n_images received
    \* ---- generate_RM, compute_dot_split, get_rand_features_GPU
    \*      (src/unnamed/part_000:223-339)
    g_pc,            \* "rm_loop" | "rm_done" | "gpu_loop" | "done" | "error" | "off"
    n_components,    \* generate_RM's n_components
    n_features,      \* generate_RM's n_features
    n_ram,           \* generate_RM's n_ram
    normalize,       \* generate_RM's normalize: "True", "False" or "1" (truthy, not True)
    rm_i,            \* i of "for i in range(n_ram)": the blocks generated so far
    heap,            \* the arrays allocated so far; an array's reference is its index
    R,               \* generate_RM's list R: references into heap
    drawn,           \* history: what np.random.randn returned for each block
    rng,             \* the state of numpy's global generator
    X,               \* get_rand_features_GPU's X: rows of booleans
    gpu_b,           \* the blocks of R the projection loop has consumed
    random_features, \* get_rand_features_GPU's list of partial outputs
    result,          \* the array get_rand_features_GPU returns; <<>> before
    \* ---- the training loop (src/crash_course_double_descent_curve.ipynb:119-137)
    t_pc,            \* "epochs" | "batches" | "done" | "off"
    beta0,           \* ae.beta when the training starts
    beta,            \* ae.beta
    n_batches,       \* the batches mnist_dl_ae_train serves per epoch
    epochs_done,     \* the values range(n_epochs) has yielded and finished
    epoch,           \* the loop variable epoch (-1 before the first)
    batch_i,         \* the batches served in the current epoch
    fwd_runs,        \* history: the (epoch, beta) pairs forward was run with
    opt_steps,       \* the optimizer steps taken
    \* ---- Autoencoder.encode (src/crash_course_double_descent_curve.ipynb:57-59, 156-159)
    e_pc,            \* "train" | "test" | "done" | "off"
    pre_train,       \* self.encoder(X_train), flattened
    pre_test,        \* self.encoder(X_test), flattened
    X_train_binary,  \* the notebook's X_train_binary
    X_test_binary,   \* the notebook's X_test_binary
    \* ---- the scripts as sequences of library calls
    script,          \* "dd" | "fe_gpu" | "fe_opu" | "jl" | "off": the script run
    oracle,          \* selects the data: what the fitted classifiers answer
    p_pc,            \* the index of the next call of the script
    p_exc,           \* <<>> or <<e>>: the exception that ended the script
    p_raised,        \* history: <<>> or <<e>>: the exception a call raised
    attempts,        \* history: how often each call of the script was made
    env,             \* the top-level names bound so far
    clf,             \* the classifier clf: bound, fitted, on how many columns
    train_accuracy,  \* train_accuracy: an array (dd) or a scalar
    test_accuracy,   \* test_accuracy: an array (dd) or a scalar
    opu_open,        \* whether the OPU session of "with opu:" is open
    proj_cols,       \* the columns the projector built so far delivers: the
                     \* widths of the blocks of R, or the object's n_components
    rf_cols,         \* the columns of the projected train and test matrices
                     \* bound at the top level (0: not bound)
    clf_log,         \* history: the fits and the scores that returned, in order
    stage_log,       \* history: the stages the calls made belong to, in order,
                     \* a stage logged when it differs from the one before
    opu_log,         \* history: the calls made to the vendor SDK, in order
    \* ---- the data passed to the vendor SDK
    k_pc,            \* "convert" | "new" | "transform" | "done" | "off"
    k_script,        \* "fe" | "dd" | "jl" | "off": the script followed
    k_split,         \* "train" | "test" | "x" | "off": the data followed
    k_raw,           \* the data before the script converts it
    k_x,             \* <<>> or <<x>>: the array the script passes
    k_obj,           \* <<>> or <<o>>: the vendor object constructed
    k_calls          \* history: the calls made to the object's method

convVars == <<c_pc, n_images, batch_size, order, dshift, conv_i, conv_features,
              labels, conv_encoded, cf_writes, lab_writes, cf_src, lab_src,
              oob_writes>>

gpuVars == <<g_pc, n_components, n_features, n_ram, normalize, rm_i, heap, R,
             drawn, rng, X, gpu_b, random_features, result>>

trainVars == <<t_pc, beta0, beta, n_batches, epochs_done, epoch, batch_i,
               fwd_runs, opt_steps>>

encVars == <<e_pc, pre_train, pre_test, X_train_binary, X_test_binary>>

pipeVars == <<script, oracle, p_pc, p_exc, p_raised, attempts, env, clf,
              train_accuracy, test_accuracy, opu_open, proj_cols, rf_cols,
              clf_log, stage_log, opu_log>>

sdkVars == <<k_pc, k_script, k_split, k_raw, k_x, k_obj, k_calls>>

vars == <<convVars, gpuVars, trainVars, encVars, pipeVars, sdkVars>>

-----------------------------------------------------------------------------
(* Bounds of the model.                                                    *)

\* the largest dataset a loader holds
MaxImages == 3
\* the largest batch size of a loader
MaxBatchSize == 3
\* out_shape: the number of features the model outputs per image
OutShape == 2
\* the datasets tried: dshift ranges over 0..MaxShift
MaxShift == 2
\* the number of label classes (STL10 has 10)
NumClasses == 10
\* the largest n_components generate_RM is called with, besides those
\* around the default n_ram
MaxComponents == 4
\* the largest n_features (columns of X, rows of a block)
MaxFeatures == 2
\* the largest n_ram passed explicitly
MaxRam == 2
\* generate_RM's default n_ram
DefaultNRam == 10
\* the generator starts in a state of 0..MaxSeed
MaxSeed == 1
\* the largest number of rows of X
MaxSamples == 2
\* the number of epochs of the autoencoder's training
n_epochs == 10
\* the largest number of batches per epoch of the training
MaxBatches == 3
\* the largest ae.beta the training starts from (the default is 1)
MaxBeta0 == 2
\* the largest number of entries of self.encoder(x)
MaxEncLen == 2
\* the batches a loader serves in the scripts' loops
PipeBatches == 2
\* the number of samples a score is taken over
NumScored == 4
\* the largest number of samples of an array passed to the vendor SDK
MaxSdkSamples == 2
\* the number of features per sample of an array passed to the vendor SDK
SdkFeatures == 2

-----------------------------------------------------------------------------
(* Helpers.                                                                *)

Min(a, b) == IF a <= b THEN a ELSE b

Max(a, b) == IF a >= b THEN a ELSE b

\* the orders a shuffling loader can serve n samples in
Perms(n) ==
    {f \in [1..n -> 1..n] : \A a, b \in 1..n : f[a] = f[b] => a = b}

-----------------------------------------------------------------------------
(* get_conv_features                                                       *)

\* model(images) for sample s, feature j: negative, zero and positive values
ModelOutput(s, j, sh) == ((s + j + sh) % 3) - 1

\* the target the dataset holds for sample s
Target(s, sh) == (s + sh) % NumClasses

\* the samples of batch i of a DataLoader with drop_last=False
LoaderBatch(ord, bs, i) == SubSeq(ord, i * bs + 1, Min((i + 1) * bs, Len(ord)))

\* the number of batches such a loader serves
NumBatches(n, bs) == (n + bs - 1) \div bs

\* faulty variant: the slice starts at i, not at i * batch_size
SliceStartNoStride(i, bs) == i

\* conv_features[i * batch_size : ...]: where the slice of batch i starts
SliceStart(i, bs) == i * bs

\* conv_features[... : (i + 1) * batch_size]: where the slice of batch i stops
SliceStop(i, bs) == (i + 1) * bs

\* the 1-based rows a Python slice [lo:hi] selects in an array of n rows
SliceRows(lo, hi, n) == (Min(lo, n) + 1) .. Min(hi, n)

\* whether a[lo:hi] = vals is accepted: same length, or one value broadcast
SliceAssignOk(lo, hi, n, vals) ==
    \/ Len(vals) = Cardinality(SliceRows(lo, hi, n))
    \/ Len(vals) = 1

\* a[lo:hi] = vals
SliceAssign(arr, lo, hi, vals) ==
    [k \in 1..Len(arr) |->
        IF k \in SliceRows(lo, hi, Len(arr))
        THEN IF Len(vals) = 1 THEN vals[1] ELSE vals[k - Min(lo, Len(arr))]
        ELSE arr[k]]

\* the history of a[lo:hi] = vals: one more write for each row of the slice
CountWrites(cnt, lo, hi) ==
    [k \in 1..Len(cnt) |->
        IF k \in SliceRows(lo, hi, Len(cnt)) THEN cnt[k] + 1 ELSE cnt[k]]

\* the values of a batch that a[lo:hi] = vals does not store in any row
Dropped(lo, hi, n, vals) ==
    IF Len(vals) = 1
    THEN IF SliceRows(lo, hi, n) = {} THEN 1 ELSE 0
    ELSE Max(0, Len(vals) - Cardinality(SliceRows(lo, hi, n)))

\* faulty variant: the encoding also maps 0 to True
EncodeGe(v) == v >= 0

\* (conv_features > 0), entry by entry
Encode(v) == v > 0

\* what (conv_features > 0) can give for one entry: an entry that was never
\* written holds whatever the allocation left there
EncodeEntry(e) == IF e = <<>> THEN BOOLEAN ELSE {Encode(e[1])}

ConvInit ==
    /\ c_pc = "loop"
    /\ n_images \in 1..MaxImages
    /\ batch_size \in 1..MaxBatchSize
    /\ order \in Perms(n_images)
    /\ dshift \in 0..MaxShift
    /\ conv_i = 0
    /\ conv_features = [k \in 1..n_images |-> [j \in 1..OutShape |-> <<>>]]
    /\ labels = [k \in 1..n_images |-> <<>>]
    /\ conv_encoded = <<>>
    /\ cf_writes = [k \in 1..n_images |-> 0]
    /\ lab_writes = [k \in 1..n_images |-> 0]
    /\ cf_src = [k \in 1..n_images |-> 0]
    /\ lab_src = [k \in 1..n_images |-> 0]
    /\ oob_writes = 0

ConvOff ==
    /\ c_pc = "off"
    /\ n_images = 0
    /\ batch_size = 0
    /\ order = <<>>
    /\ dshift = 0
    /\ conv_i = 0
    /\ conv_features = <<>>
    /\ labels = <<>>
    /\ conv_encoded = <<>>
    /\ cf_writes = <<>>
    /\ lab_writes = <<>>
    /\ cf_src = <<>>
    /\ lab_src = <<>>
    /\ oob_writes = 0

\* one pass of the body of "for i, (images, targets) in enumerate(loader)"
ConvBatch ==
    /\ c_pc = "loop"
    /\ conv_i < NumBatches(n_images, batch_size)
    /\ LET batch   == LoaderBatch(order, batch_size, conv_i)
           outputs == [b \in 1..Len(batch) |->
                          [j \in 1..OutShape |->
                              <<ModelOutput(batch[b], j, dshift)>>]]
           targets == [b \in 1..Len(batch) |-> <<Target(batch[b], dshift)>>]
           lo      == SliceStart(conv_i, batch_size)
           hi      == SliceStop(conv_i, batch_size)
       IN IF SliceAssignOk(lo, hi, n_images, outputs)
          THEN /\ conv_features' = SliceAssign(conv_features, lo, hi, outputs)
               /\ labels' = SliceAssign(labels, lo, hi, targets)
               /\ cf_writes' = CountWrites(cf_writes, lo, hi)
               /\ lab_writes' = CountWrites(lab_writes, lo, hi)
               /\ cf_src' = SliceAssign(cf_src, lo, hi, batch)
               /\ lab_src' = SliceAssign(lab_src, lo, hi, batch)
               /\ oob_writes' = oob_writes + Dropped(lo, hi, n_images, batch)
               /\ conv_i' = conv_i + 1
               /\ c_pc' = "loop"
          ELSE /\ c_pc' = "error"
               /\ UNCHANGED <<conv_features, labels, cf_writes, lab_writes,
                              cf_src, lab_src, oob_writes, conv_i>>
    /\ UNCHANGED <<n_images, batch_size, order, dshift, conv_encoded>>

\* the loader is exhausted: the batch loop ends
ConvLoopEnd ==
    /\ c_pc = "loop"
    /\ conv_i = NumBatches(n_images, batch_size)
    /\ c_pc' = "encode"
    /\ UNCHANGED <<n_images, batch_size, order, dshift, conv_i, conv_features,
                   labels, conv_encoded, cf_writes, lab_writes, cf_src,
                   lab_src, oob_writes>>

\* conv_features = (conv_features > 0); conv_features.cpu(); return
ConvEncode ==
    /\ c_pc = "encode"
    /\ conv_encoded' \in
          {f \in [1..n_images -> [1..OutShape -> BOOLEAN]] :
              \A k \in 1..n_images : \A j \in 1..OutShape :
                  f[k][j] \in EncodeEntry(conv_features[k][j])}
    /\ c_pc' = "done"
    /\ UNCHANGED <<n_images, batch_size, order, dshift, conv_i, conv_features,
                   labels, cf_writes, lab_writes, cf_src, lab_src, oob_writes>>


-----------------------------------------------------------------------------
(* generate_RM, compute_dot_split, get_rand_features_GPU                   *)
(*                                                                         *)
(* A real number is held exactly: an entry of a random matrix is the       *)
(* record [n |-> a, s |-> d], the number a / sqrt(d); an entry of a        *)
(* projection is the record [num |-> a, den |-> d], the number a / d.      *)
(* An array is the record [rows, cols, data], data[r][c] its entries.      *)

\* the values np.random.randn returns, by the state of the generator
GaussTable == <<-2, 1, -1, 2, 0>>

\* the value the generator returns in state st
Randn(st) == GaussTable[(st % Len(GaussTable)) + 1]

\* np.random.randn(rows, cols) from state st: the draws in row-major order
RandnArray(st, rows, cols) ==
    [r \in 1..rows |-> [c \in 1..cols |-> Randn(st + (r - 1) * cols + (c - 1))]]

\* the values generate_RM is called with
NComponentsArgs == (1..MaxComponents) \cup {DefaultNRam, DefaultNRam + 2}

NRamArgs == (1..MaxRam) \cup {DefaultNRam}

NormalizeArgs == {"True", "False", "1"}

\* the rows of booleans the feature matrix X is made of
XRows(nf) ==
    { [j \in 1..nf |-> TRUE],
      [j \in 1..nf |-> j = 1],
      [j \in 1..nf |-> j # 1] }

\* matrix_shape[1] = n_components // n_ram
BlockWidth(nc, nr) == nc \div nr

\* "if normalize is True"
NormalizeIsTrue(nz) == nz = "True"

\* the number under the square root of "R_tmp /= np.sqrt(n_components)"
NormalizeDivisor(nc, nf) == nc

\* x / sqrt(k)
DivSqrt(x, k) == [n |-> x.n, s |-> x.s * k]

\* whether the reals a.n / sqrt(a.s) and b.n / sqrt(b.s) are the same number
RealEq(a, b) ==
    /\ (a.n > 0) = (b.n > 0)
    /\ (a.n < 0) = (b.n < 0)
    /\ a.n * a.n * b.s = b.n * b.n * a.s

\* faulty variant: the block is allocated once, before the loop, and filled again
NewArrayIdHoisted(h) == 1

\* np.zeros(shape=matrix_shape): a fresh array, its reference
NewArrayId(h) == Len(h) + 1

\* the heap after the array with reference id is (re)written
Store(h, id, arr) == IF id > Len(h) THEN Append(h, arr) ELSE [h EXCEPT ![id] = arr]

\* R_tmp as generate_RM appends it: the draws, divided when normalize is True
MakeBlock(draws, rows, cols, nz, nc, nf) ==
    [rows |-> rows, cols |-> cols,
     data |-> [r \in 1..rows |-> [c \in 1..cols |->
                 IF NormalizeIsTrue(nz)
                 THEN DivSqrt([n |-> draws[r][c], s |-> 1], NormalizeDivisor(nc, nf))
                 ELSE [n |-> draws[r][c], s |-> 1]]]]

RECURSIVE SumTo(_, _)
\* f[1] + ... + f[n]
SumTo(f, n) == IF n = 0 THEN 0 ELSE f[n] + SumTo(f, n - 1)

\* the dot product of a row of booleans with column c of array m, whose
\* entries share their divisor (one block is divided by one number)
DotColumn(xrow, m, c) ==
    [n |-> SumTo([j \in 1..m.rows |-> IF xrow[j] THEN m.data[j][c].n ELSE 0], m.rows),
     s |-> m.data[1][c].s]

\* abs(v) ** 2
AbsSq(v) == [num |-> v.n * v.n, den |-> v.s]

\* compute_dot_split(x, random_matrix): abs(dot(x, rm)) ** 2
compute_dot_split(x, m) ==
    [rows |-> Len(x), cols |-> m.cols,
     data |-> [k \in 1..Len(x) |-> [c \in 1..m.cols |-> AbsSq(DotColumn(x[k], m, c))]]]

RECURSIVE ConcatRow(_, _, _)
\* row k of the arrays parts[1..n], one after the other
ConcatRow(parts, n, k) ==
    IF n = 0 THEN <<>> ELSE ConcatRow(parts, n - 1, k) \o parts[n].data[k]

RECURSIVE SumCols(_, _)
\* the columns of the arrays parts[1..n] together
SumCols(parts, n) == IF n = 0 THEN 0 ELSE parts[n].cols + SumCols(parts, n - 1)

\* faulty variant: the partial outputs are concatenated last block first
ConcatOrderReversed(parts) == [b \in 1..Len(parts) |-> parts[Len(parts) + 1 - b]]

\* the order np.concatenate takes the partial outputs in: the list's
ConcatOrder(parts) == parts

\* whether np.concatenate(parts, axis=1) is accepted: a non-empty list of
\* arrays with the same number of rows
ConcatenateOk(parts) ==
    /\ Len(parts) > 0
    /\ \A b \in 1..Len(parts) : parts[b].rows = parts[1].rows

\* np.concatenate(parts, axis=1)
Concatenate(parts) ==
    LET ps == ConcatOrder(parts)
    IN [rows |-> ps[1].rows, cols |-> SumCols(ps, Len(ps)),
        data |-> [k \in 1..ps[1].rows |-> ConcatRow(ps, Len(ps), k)]]

GpuInit ==
    /\ g_pc = "rm_loop"
    /\ n_components \in NComponentsArgs
    /\ n_features \in 1..MaxFeatures
    /\ n_ram \in NRamArgs
    /\ normalize \in NormalizeArgs
    /\ rng \in 0..MaxSeed
    /\ rm_i = 0
    /\ heap = <<>>
    /\ R = <<>>
    /\ drawn = <<>>
    /\ X = <<>>
    /\ gpu_b = 0
    /\ random_features = <<>>
    /\ result = <<>>

GpuOff ==
    /\ g_pc = "off"
    /\ n_components = 0
    /\ n_features = 0
    /\ n_ram = 0
    /\ normalize = "True"
    /\ rng = 0
    /\ rm_i = 0
    /\ heap = <<>>
    /\ R = <<>>
    /\ drawn = <<>>
    /\ X = <<>>
    /\ gpu_b = 0
    /\ random_features = <<>>
    /\ result = <<>>

\* one pass of the body of "for i in range(n_ram)" of generate_RM
GenerateBlock ==
    /\ g_pc = "rm_loop"
    /\ rm_i < n_ram
    /\ LET cols  == BlockWidth(n_components, n_ram)
           id    == NewArrayId(heap)
           draws == RandnArray(rng, n_features, cols)
       IN /\ heap' = Store(heap, id,
                        MakeBlock(draws, n_features, cols, normalize,
                                  n_components, n_features))
          /\ R' = Append(R, id)
          /\ drawn' = Append(drawn, draws)
          /\ rng' = (rng + n_features * cols) % Len(GaussTable)
    /\ rm_i' = rm_i + 1
    /\ UNCHANGED <<g_pc, n_components, n_features, n_ram, normalize, X, gpu_b,
                   random_features, result>>

\* range(n_ram) is exhausted: generate_RM returns R
GenerateReturn ==
    /\ g_pc = "rm_loop"
    /\ rm_i = n_ram
    /\ g_pc' = "rm_done"
    /\ UNCHANGED <<n_components, n_features, n_ram, normalize, rm_i, heap, R,
                   drawn, rng, X, gpu_b, random_features, result>>

\* get_rand_features_GPU(R, X) is called on a feature matrix with n_features
\* columns: random_features = []; X = cp.asarray(X)
GpuStart ==
    /\ g_pc = "rm_done"
    /\ \E ns \in 1..MaxSamples : X' \in [1..ns -> XRows(n_features)]
    /\ random_features' = <<>>
    /\ gpu_b' = 0
    /\ g_pc' = "gpu_loop"
    /\ UNCHANGED <<n_components, n_features, n_ram, normalize, rm_i, heap, R,
                   drawn, rng, result>>

\* one pass of "for matrix in R": append compute_dot_split(X, matrix)
GpuBlock ==
    /\ g_pc = "gpu_loop"
    /\ gpu_b < Len(R)
    /\ random_features' =
          Append(random_features, compute_dot_split(X, heap[R[gpu_b + 1]]))
    /\ gpu_b' = gpu_b + 1
    /\ UNCHANGED <<g_pc, n_components, n_features, n_ram, normalize, rm_i, heap,
                   R, drawn, rng, X, result>>

\* R is exhausted: cp.asnumpy, np.concatenate(random_features, axis=1), return
GpuConcat ==
    /\ g_pc = "gpu_loop"
    /\ gpu_b = Len(R)
    /\ IF ConcatenateOk(random_features)
       THEN /\ result' = Concatenate(random_features)
            /\ g_pc' = "done"
       ELSE /\ result' = result
            /\ g_pc' = "error"
    /\ UNCHANGED <<n_components, n_features, n_ram, normalize, rm_i, heap, R,
                   drawn, rng, X, gpu_b, random_features>>

-----------------------------------------------------------------------------
(* The training loop of the autoencoder                                    *)
(* (src/crash_course_double_descent_curve.ipynb:119-137)                   *)

RECURSIVE Pow2(_)
\* 2 ** e
Pow2(e) == IF e = 0 THEN 1 ELSE 2 * Pow2(e - 1)

\* faulty variant: "ae.beta = ae.beta * 2" indented into the batch loop
BetaAfterBatchDoubled(b) == b * 2

\* ae.beta after the body of the batch loop, which does not assign it
BetaAfterBatch(b) == b

\* ae.beta after "ae.beta = ae.beta * 2"
BetaAfterEpoch(b) == b * 2

TrainInit ==
    /\ t_pc = "epochs"
    /\ beta0 \in 1..MaxBeta0
    /\ beta = beta0
    /\ n_batches \in 1..MaxBatches
    /\ epochs_done = 0
    /\ epoch = -1
    /\ batch_i = 0
    /\ fwd_runs = {}
    /\ opt_steps = 0

TrainOff ==
    /\ t_pc = "off"
    /\ beta0 = 0
    /\ beta = 0
    /\ n_batches = 0
    /\ epochs_done = 0
    /\ epoch = -1
    /\ batch_i = 0
    /\ fwd_runs = {}
    /\ opt_steps = 0

\* "for epoch in range(n_epochs)" yields the next epoch
EpochStart ==
    /\ t_pc = "epochs"
    /\ epochs_done < n_epochs
    /\ epoch' = epochs_done
    /\ batch_i' = 0
    /\ t_pc' = "batches"
    /\ UNCHANGED <<beta0, beta, n_batches, epochs_done, fwd_runs, opt_steps>>

\* the body of the batch loop: zero_grad, x_tilde = ae(x) (forward reads
\* self.beta), loss, backward, optimizer.step
TrainBatch ==
    /\ t_pc = "batches"
    /\ batch_i < n_batches
    /\ fwd_runs' = fwd_runs \cup {[epoch |-> epoch, beta |-> beta]}
    /\ opt_steps' = opt_steps + 1
    /\ beta' = BetaAfterBatch(beta)
    /\ batch_i' = batch_i + 1
    /\ UNCHANGED <<t_pc, beta0, n_batches, epochs_done, epoch>>

\* the loader is exhausted: ae.beta = ae.beta * 2 ends the epoch
EpochEnd ==
    /\ t_pc = "batches"
    /\ batch_i = n_batches
    /\ beta' = BetaAfterEpoch(beta)
    /\ epochs_done' = epochs_done + 1
    /\ t_pc' = "epochs"
    /\ UNCHANGED <<beta0, n_batches, epoch, batch_i, fwd_runs, opt_steps>>

\* range(n_epochs) is exhausted: the training is over
TrainEnd ==
    /\ t_pc = "epochs"
    /\ epochs_done = n_epochs
    /\ t_pc' = "done"
    /\ UNCHANGED <<beta0, beta, n_batches, epochs_done, epoch, batch_i,
                   fwd_runs, opt_steps>>

-----------------------------------------------------------------------------
(* Autoencoder.encode and the binary-representation cell                   *)
(* (src/crash_course_double_descent_curve.ipynb:57-59, 156-159)            *)
(*                                                                         *)
(* An entry of encode(x) is the rational [num |-> a, den |-> d], a / d.    *)

\* the values self.encoder(x) takes in the model
PreActs == {-2, 0, 3}

\* torch.sign
Sign(v) == IF v > 0 THEN 1 ELSE IF v < 0 THEN -1 ELSE 0

\* (torch.sign(self.encoder(x)) + 1) / 2 for one entry of self.encoder(x)
encode(v) == [num |-> Sign(v) + 1, den |-> 2]

\* whether the rational q is exactly 0 or exactly 1
IsZeroOrOne(q) == q.num = 0 \/ q.num = q.den

EncInit ==
    /\ e_pc = "train"
    /\ \E n \in 1..MaxEncLen : pre_train \in [1..n -> PreActs]
    /\ \E n \in 1..MaxEncLen : pre_test \in [1..n -> PreActs]
    /\ X_train_binary = <<>>
    /\ X_test_binary = <<>>

EncOff ==
    /\ e_pc = "off"
    /\ pre_train = <<>>
    /\ pre_test = <<>>
    /\ X_train_binary = <<>>
    /\ X_test_binary = <<>>

\* X_train_binary = ae.encode(X_train).view(X_train.shape[0], -1).detach()
EncodeTrain ==
    /\ e_pc = "train"
    /\ X_train_binary' = [k \in 1..Len(pre_train) |-> encode(pre_train[k])]
    /\ e_pc' = "test"
    /\ UNCHANGED <<pre_train, pre_test, X_test_binary>>

\* X_test_binary = ae.encode(X_test).view(X_test.shape[0], -1).detach()
EncodeTest ==
    /\ e_pc = "test"
    /\ X_test_binary' = [k \in 1..Len(pre_test) |-> encode(pre_test[k])]
    /\ e_pc' = "done"
    /\ UNCHANGED <<pre_train, pre_test, X_train_binary>>

-----------------------------------------------------------------------------
(* The scripts as sequences of library calls                               *)
(*                                                                         *)
(* A script is the sequence of the library calls it makes, in program      *)
(* order, loops unrolled.  A step is a record:                             *)
(*   call   the library call,                                              *)
(*   fn     the functions of this repository the call is made inside,      *)
(*          outermost first (<<>>: at the top level of a cell),            *)
(*   kind   what the call does to the modelled data ("call": nothing),     *)
(*   binds  the top-level names assigned once the call (and, for the last  *)
(*          call of a function, the function) has returned,                *)
(*   arg    the number of columns a fit or a score is given,               *)
(*   split  "train" or "test" for a score or an np.zeros,                  *)
(*   idx    the index of the accuracy entry a score is stored in (0: the   *)
(*          accuracy is a scalar),                                         *)
(*   pct    whether the score is multiplied by 100 before it is stored,    *)
(*   ctx    the context manager whose with-block holds the call.           *)
(* The kinds: "new_opu" constructs the vendor object with n_components =   *)
(* arg, "block" appends a block arg columns wide to R, "transform" is the  *)
(* object's transform or transform1d, "enter" and "exit" are the ends of   *)
(* the with-block, "new_clf", "fit" and "score" act on the classifier,     *)
(* "zeros" allocates an accuracy array.                                    *)

St(call, fn, kind, binds) ==
    [call |-> call, fn |-> fn, kind |-> kind, binds |-> binds,
     arg |-> 0, split |-> "", idx |-> 0, pct |-> FALSE, ctx |-> ""]

RECURSIVE Rep(_, _)
\* the steps s, n times over
Rep(n, s) == IF n = 0 THEN <<>> ELSE Rep(n - 1, s) \o s

RECURSIVE Insert(_, _)
\* the sorted sequence s with v inserted
Insert(s, v) ==
    IF s = <<>> THEN <<v>>
    ELSE IF v < s[1] THEN <<v>> \o s
    ELSE <<s[1]>> \o Insert(Tail(s), v)

RECURSIVE Sorted(_)
\* sorted(s)
Sorted(s) == IF s = <<>> THEN <<>> ELSE Insert(Sorted(Tail(s)), s[1])

\* [500 * k for k in range(4, 41)]
uniform_sampling == [k \in 1..37 |-> 500 * (k + 3)]

interpolation_point_sampling == <<9250, 9750, 10250, 10750>>

\* faulty variant: the list is not sorted
rps_list_unsorted == uniform_sampling \o interpolation_point_sampling

\* sorted(uniform_sampling + interpolation_point_sampling)
rps_list == Sorted(uniform_sampling \o interpolation_point_sampling)

RECURSIVE MaxOf(_)
\* max(s) of a non-empty sequence
MaxOf(s) == IF Len(s) = 1 THEN s[1] ELSE Max(s[1], MaxOf(Tail(s)))

\* max(rps_list)
max_rps == MaxOf(rps_list)

\* ---- the double-descent notebook

\* one pass of the batch loop of the training
DDBatchSteps ==
    << St("x.to(device)", <<>>, "call", {"x"}),
       St("ae(x)", <<>>, "call", {"x_tilde"}),
       St("loss.backward()", <<>>, "call", {"loss"}),
       St("optimizer.step()", <<>>, "call", {}) >>

\* faulty variant: the train score is taken before the fit
DDSweepBodyScoreFirst(i) ==
    << St("RidgeClassifier()", <<>>, "new_clf", {"clf"}),
       [St("clf.score", <<>>, "score", {}) EXCEPT
           !.arg = rps_list[i], !.split = "train", !.idx = i],
       [St("clf.fit", <<>>, "fit", {}) EXCEPT !.arg = rps_list[i]],
       [St("clf.score", <<>>, "score", {}) EXCEPT
           !.arg = rps_list[i], !.split = "test", !.idx = i] >>

\* one pass of "for i, rp in enumerate(tqdm(rps_list))"
DDSweepBody(i) ==
    << St("RidgeClassifier()", <<>>, "new_clf", {"clf"}),
       [St("clf.fit", <<>>, "fit", {}) EXCEPT !.arg = rps_list[i]],
       [St("clf.score", <<>>, "score", {}) EXCEPT
           !.arg = rps_list[i], !.split = "train", !.idx = i],
       [St("clf.score", <<>>, "score", {}) EXCEPT
           !.arg = rps_list[i], !.split = "test", !.idx = i] >>

RECURSIVE DDSweep(_)
\* the first n passes of the sweep
DDSweep(n) == IF n = 0 THEN <<>> ELSE DDSweep(n - 1) \o DDSweepBody(n)

DDSteps ==
    << St("Autoencoder()", <<>>, "call", {"ae"}),
       St("datasets.MNIST(train=True)", <<>>, "call", {"trainset"}),
       St("datasets.MNIST(train=False)", <<>>, "call", {"testset"}),
       St("DataLoader", <<>>, "call", {"mnist_dl_ae_train"}),
       St("DataLoader", <<>>, "call", {"mnist_dl_test"}),
       St("DataLoader", <<>>, "call", {"mnist_dl_train"}),
       St("optim.Adam", <<>>, "call", {"mse", "parameters", "optimizer"}),
       St("ae.to(device)", <<>>, "call", {"device"}) >>
    \o Rep(n_epochs * PipeBatches, DDBatchSteps)
    \o << St("iter(mnist_dl_train).next()", <<>>, "call", {"X_train", "y_train"}),
          St("iter(mnist_dl_test).next()", <<>>, "call", {"X_test", "y_test"}),
          St("ae.to('cpu')", <<>>, "call", {}),
          St("ae.encode", <<>>, "call", {"X_train_binary"}),
          St("ae.encode", <<>>, "call", {"X_test_binary"}),
          [St("OPU(n_components=max_rps)", <<>>, "new_opu", {"opu"}) EXCEPT
              !.arg = max_rps],
          St("opu.__enter__", <<>>, "enter", {}),
          [St("opu.transform1d", <<>>, "transform", {"X_train_rf"}) EXCEPT
              !.ctx = "opu"],
          [St("opu.transform1d", <<>>, "transform", {"X_test_rf"}) EXCEPT
              !.ctx = "opu"],
          [St("opu.__exit__", <<>>, "exit", {}) EXCEPT !.ctx = "opu"],
          [St("np.zeros", <<>>, "zeros", {"train_accuracy"}) EXCEPT !.split = "train"],
          [St("np.zeros", <<>>, "zeros", {"test_accuracy"}) EXCEPT !.split = "test"] >>
    \o DDSweep(Len(rps_list))
    \o << St("plt.show", <<>>, "call", {}) >>

\* ---- the feature-extraction notebook

\* n_components = 120000
fe_n_components == 120000

\* get_conv_features(loader, model, output_size, device), binding names
FEConvSteps(names) ==
    LET f == <<"get_conv_features">>
    IN << St("torch.FloatTensor(...).to(device)", f, "call", {}),
          St("model.eval()", f, "call", {}),
          St("torch.cuda.synchronize()", f, "call", {}) >>
       \o Rep(PipeBatches, << St("images.to(device)", f, "call", {}),
                              St("model(images)", f, "call", {}) >>)
       \o << St("torch.cuda.synchronize()", f, "call", {}),
             St("conv_features.cpu()", f, "call", names) >>

FEPrefix ==
    << St("densenet169(pretrained=True)", <<>>, "call", {"model"}),
       St("model.to(device)", <<>>, "call", {}),
       St("model(dummy_input)", <<>>, "call", {"dummy_input", "output_size"}),
       St("datasets.STL10(split='train')", <<>>, "call", {"train_data"}),
       St("datasets.STL10(split='test')", <<>>, "call", {"test_data"}),
       St("DataLoader", <<>>, "call", {"train_loader"}),
       St("DataLoader", <<>>, "call", {"test_loader"}) >>
    \o FEConvSteps({"train_conv_f", "train_labels", "train_conv_t", "train_encode_t"})
    \o FEConvSteps({"test_conv_f", "test_labels", "test_conv_t", "test_encode_t"})

\* generate_RM(n_components, output_size): n_ram is the default
FEGenerateSteps ==
    LET f == <<"generate_RM">>
        w == BlockWidth(fe_n_components, DefaultNRam)
    IN Rep(DefaultNRam - 1,
           << St("np.zeros", f, "call", {}),
              [St("np.random.randn", f, "block", {}) EXCEPT !.arg = w] >>)
       \o << St("np.zeros", f, "call", {}),
             [St("np.random.randn", f, "block", {"R", "generation_time"}) EXCEPT
                 !.arg = w] >>

\* get_rand_features_GPU(R, X), binding names
FEGpuProjSteps(names) ==
    LET f == <<"get_rand_features_GPU">>
        g == <<"get_rand_features_GPU", "compute_dot_split">>
    IN << St("cp.asarray(X)", f, "call", {}) >>
       \o Rep(DefaultNRam, << St("cp.asarray(random_matrix)", g, "call", {}),
                              St("cp.dot", g, "call", {}),
                              St("cp.asnumpy", g, "call", {}) >>)
       \o << St("cp.asnumpy(random_features)", f, "call", {}),
             St("np.concatenate", f, "call", names) >>

\* faulty variant: the object is built with half the n_components passed
FEOpuProjStepsHalf(names) ==
    LET f == <<"get_random_features">>
    IN << [St("OPUMap(n_components=n_components)", f, "new_opu", {}) EXCEPT
              !.arg = fe_n_components \div 2],
          St("opu.transform", f, "transform", {}),
          St("random_features.type(torch.FloatTensor)", f, "call", names) >>

\* get_random_features(X, n_components), binding names
FEOpuProjSteps(names) ==
    LET f == <<"get_random_features">>
    IN << [St("OPUMap(n_components=n_components)", f, "new_opu", {}) EXCEPT
              !.arg = fe_n_components],
          St("opu.transform", f, "transform", {}),
          St("random_features.type(torch.FloatTensor)", f, "call", names) >>

\* the cell "Fitting the linear classifier"
FEFitSteps ==
    << St("RidgeClassifier(alpha=1e3)", <<>>, "new_clf", {"clf"}),
       [St("clf.fit", <<>>, "fit", {"fit_time"}) EXCEPT !.arg = fe_n_components],
       [St("clf.score", <<>>, "score", {"train_accuracy"}) EXCEPT
           !.arg = fe_n_components, !.split = "train", !.pct = TRUE],
       [St("clf.score", <<>>, "score", {"test_accuracy"}) EXCEPT
           !.arg = fe_n_components, !.split = "test", !.pct = TRUE],
       St("print", <<>>, "call", {}) >>

FEGpuSteps ==
    FEPrefix \o FEGenerateSteps
    \o FEGpuProjSteps({"train_random_features", "train_proj_t"})
    \o FEGpuProjSteps({"test_random_features", "test_proj_t"})
    \o FEFitSteps

FEOpuSteps ==
    FEPrefix
    \o FEOpuProjSteps({"train_random_features", "train_proj_t", "decode_train_t"})
    \o FEOpuProjSteps({"test_random_features", "test_proj_t", "decode_test_t"})
    \o FEFitSteps

\* the parameters and the returned values of the two projection functions
Signature(fn) ==
    CASE fn = "get_rand_features_GPU" ->
             [params |-> <<"R", "X">>,
              returns |-> <<"random_features", "proj_time">>]
      [] fn = "get_random_features" ->
             [params |-> <<"X", "n_components">>,
              returns |-> <<"random_features", "proj_time", "decode_time">>]

\* the statement that projects the features of a split in a variant of the
\* notebook: the function called, its arguments, the targets it is unpacked to
CallSite(s, split) ==
    CASE s = "fe_gpu" /\ split = "train" ->
             [fn |-> "get_rand_features_GPU",
              args |-> <<"R", "train_conv_f">>,
              targets |-> <<"train_random_features", "train_proj_t">>]
      [] s = "fe_gpu" /\ split = "test" ->
             [fn |-> "get_rand_features_GPU",
              args |-> <<"R", "test_conv_f">>,
              targets |-> <<"test_random_features", "test_proj_t">>]
      [] s = "fe_opu" /\ split = "train" ->
             [fn |-> "get_random_features",
              args |-> <<"train_conv_f", "n_components">>,
              targets |-> <<"train_random_features", "train_proj_t",
                            "decode_train_t">>]
      [] s = "fe_opu" /\ split = "test" ->
             [fn |-> "get_random_features",
              args |-> <<"test_conv_f", "n_components">>,
              targets |-> <<"test_random_features", "test_proj_t",
                            "decode_test_t">>]

\* the elements of a sequence
Range(q) == {q[k] : k \in 1..Len(q)}

\* the position of the parameter X among the parameters of fn
XPosition(fn) == CHOOSE k \in 1..Len(Signature(fn).params) :
                     Signature(fn).params[k] = "X"

\* how a call site calls and unpacks: the number of arguments, the position
\* of the feature matrix among them, the number of targets
CallShape(c) ==
    [nargs |-> Len(c.args), xpos |-> XPosition(c.fn), ntargets |-> Len(c.targets)]

\* ---- the Julia script

\* opu = lgopu.OPU(n_components=10000)
jl_n_components == 10000

JLSteps ==
    << St("Pkg.add", <<>>, "call", {}),
       St("pyimport(lightonopu)", <<>>, "call", {"lgopu"}),
       St("pyimport(numpy)", <<>>, "call", {"np"}),
       St("np.random.randint", <<>>, "call", {"x"}),
       [St("lgopu.OPU(n_components=10000)", <<>>, "new_opu", {"opu"}) EXCEPT
           !.arg = jl_n_components],
       St("opu.transform1d", <<>>, "transform", {"y"}),
       St("opu.transform1d", <<>>, "transform", {"y"}),
       St("println", <<>>, "call", {}) >>

Scripts == {"dd", "fe_gpu", "fe_opu", "jl"}

Steps(s) ==
    CASE s = "dd" -> DDSteps
      [] s = "fe_gpu" -> FEGpuSteps
      [] s = "fe_opu" -> FEOpuSteps
      [] s = "jl" -> JLSteps
      [] OTHER -> <<>>

\* ---- the data the calls act on

\* the number of samples the classifier answers correctly, of NumScored: it
\* is fixed by the data (o), the columns the classifier is fitted on and the
\* split scored
Correct(o, cols, split) ==
    (o + (cols \div 250) + (IF split = "test" THEN 1 ELSE 0)) % (NumScored + 1)

\* clf.score(X, y): the share of the samples answered correctly
Score(o, cols, split) == [num |-> Correct(o, cols, split), den |-> NumScored]

\* faulty variant: the percentage is taken twice
PercentTwice(q) == [num |-> q.num * 100 * 100, den |-> q.den]

\* clf.score(...) * 100
Percent(q) == [num |-> q.num * 100, den |-> q.den]

\* faulty variant: a handler around the call swallows the exception
PropagateSwallowed(exc, frames) == <<>>

\* the exception in flight once it has passed the frames of the functions
\* the call was made in: no function and no cell has a handler, so it is
\* the exception the call raised
Propagate(exc, frames) == exc

\* a name that is not bound yet
Unbound == [num |-> 0, den |-> 1]

\* the two splits of the data
Splits == {"train", "test"}

\* the top-level names the projected matrices are bound to
ProjectedName ==
    [train |-> {"train_random_features", "X_train_rf"},
     test |-> {"test_random_features", "X_test_rf"}]

\* the number of columns of X[:, :stop] for a matrix X of the given width
SliceCols(stop, width) == Min(stop, width)

\* the calls that download or load a dataset
LoadCalls ==
    {"datasets.MNIST(train=True)", "datasets.MNIST(train=False)",
     "datasets.STL10(split='train')", "datasets.STL10(split='test')",
     "DataLoader", "iter(mnist_dl_train).next()", "iter(mnist_dl_test).next()",
     "np.random.randint"}

\* the calls that report: print the accuracies, show the plot
ReportCalls == {"print", "plt.show", "println"}

\* the functions of the repository that build a projector or project
ProjectFns == {"generate_RM", "get_rand_features_GPU", "get_random_features"}

\* the stage of a pipeline a call belongs to: 1 dataset load, 2 feature
\* extraction, 3 random projection, 4 classifier fit, 5 scoring and
\* reporting; 0 for the set-up around them (building and training the
\* network, moving it between devices, allocating the accuracy arrays)
Stage(st) ==
    CASE st.kind \in {"new_clf", "fit"} -> 4
      [] st.kind = "score" \/ st.call \in ReportCalls -> 5
      [] st.kind \in {"new_opu", "block", "transform", "enter", "exit"} -> 3
      [] st.fn # <<>> /\ st.fn[1] \in ProjectFns -> 3
      [] st.fn = <<"get_conv_features">> \/ st.call = "ae.encode" -> 2
      [] st.call \in LoadCalls -> 1
      [] OTHER -> 0

\* the stage log once the call st has been made
Logged(log, st) ==
    IF Stage(st) = 0 \/ (log # <<>> /\ log[Len(log)] = Stage(st))
    THEN log
    ELSE Append(log, Stage(st))

\* the record of a call made to the vendor SDK: which call, the
\* n_components of the object, whether the session was open when the call
\* was made, whether the call raised
OpuEvent(ev, n, open, raised) ==
    [ev |-> ev, n |-> n, open |-> open, raised |-> raised]

PipeInit ==
    /\ script \in Scripts
    /\ oracle \in 0..NumScored
    /\ p_pc = 1
    /\ p_exc = <<>>
    /\ p_raised = <<>>
    /\ attempts = [k \in 1..Len(Steps(script)) |-> 0]
    /\ env = {}
    /\ clf = [bound |-> FALSE, fitted |-> FALSE, cols |-> 0, id |-> 0]
    /\ train_accuracy = IF script = "dd" THEN <<>> ELSE Unbound
    /\ test_accuracy = IF script = "dd" THEN <<>> ELSE Unbound
    /\ opu_open = FALSE
    /\ proj_cols = 0
    /\ rf_cols = [s \in Splits |-> 0]
    /\ clf_log = <<>>
    /\ stage_log = <<>>
    /\ opu_log = <<>>

PipeOff ==
    /\ script = "off"
    /\ oracle = 0
    /\ p_pc = 1
    /\ p_exc = <<>>
    /\ p_raised = <<>>
    /\ attempts = <<>>
    /\ env = {}
    /\ clf = [bound |-> FALSE, fitted |-> FALSE, cols |-> 0, id |-> 0]
    /\ train_accuracy = <<>>
    /\ test_accuracy = <<>>
    /\ opu_open = FALSE
    /\ proj_cols = 0
    /\ rf_cols = [s \in Splits |-> 0]
    /\ clf_log = <<>>
    /\ stage_log = <<>>
    /\ opu_log = <<>>

\* the script is at a call of the given kind and no exception is in flight
AtStep(kind) ==
    /\ p_exc = <<>>
    /\ p_pc <= Len(Steps(script))
    /\ Steps(script)[p_pc].kind = kind

\* the call returns: it was attempted, its names are bound (a projected
\* matrix has the columns the projector delivers), the script goes on
Returned ==
    /\ attempts' = [attempts EXCEPT ![p_pc] = @ + 1]
    /\ env' = env \cup Steps(script)[p_pc].binds
    /\ rf_cols' = [s \in Splits |->
                      IF Steps(script)[p_pc].binds \cap ProjectedName[s] # {}
                      THEN proj_cols
                      ELSE rf_cols[s]]
    /\ stage_log' = Logged(stage_log, Steps(script)[p_pc])
    /\ p_pc' = p_pc + 1
    /\ UNCHANGED <<script, oracle, p_exc, p_raised>>

\* a library call with no effect on the modelled data returns
CallReturns ==
    /\ AtStep("call")
    /\ Returned
    /\ UNCHANGED <<clf, train_accuracy, test_accuracy, opu_open, proj_cols,
                   clf_log, opu_log>>

\* OPU(n_components=arg) or OPUMap(n_components=arg) returns the object
NewOpuReturns ==
    /\ AtStep("new_opu")
    /\ Returned
    /\ proj_cols' = Steps(script)[p_pc].arg
    /\ opu_log' = Append(opu_log,
                         OpuEvent("new_opu", Steps(script)[p_pc].arg, opu_open,
                                  FALSE))
    /\ UNCHANGED <<clf, train_accuracy, test_accuracy, opu_open, clf_log>>

\* np.random.randn(*matrix_shape) returns and the block is appended to R
BlockReturns ==
    /\ AtStep("block")
    /\ Returned
    /\ proj_cols' = proj_cols + Steps(script)[p_pc].arg
    /\ UNCHANGED <<clf, train_accuracy, test_accuracy, opu_open, clf_log,
                   opu_log>>

\* opu.transform(X) or opu.transform1d(X) returns
TransformReturns ==
    /\ AtStep("transform")
    /\ Returned
    /\ opu_log' = Append(opu_log, OpuEvent("transform", proj_cols, opu_open,
                                           FALSE))
    /\ UNCHANGED <<clf, train_accuracy, test_accuracy, opu_open, proj_cols,
                   clf_log>>

\* RidgeClassifier(...) returns a new classifier that is not fitted
NewClfReturns ==
    /\ AtStep("new_clf")
    /\ Returned
    /\ clf' = [bound |-> TRUE, fitted |-> FALSE, cols |-> 0, id |-> clf.id + 1]
    /\ UNCHANGED <<train_accuracy, test_accuracy, opu_open, proj_cols, clf_log,
                   opu_log>>

\* clf.fit(X[:, :arg], y) returns: X is the projected train matrix
FitReturns ==
    /\ AtStep("fit")
    /\ clf.bound
    /\ rf_cols["train"] > 0
    /\ Returned
    /\ LET cols == SliceCols(Steps(script)[p_pc].arg, rf_cols["train"])
       IN /\ clf' = [clf EXCEPT !.fitted = TRUE, !.cols = cols]
          /\ clf_log' = Append(clf_log, [op |-> "fit", clf |-> clf.id,
                                         cols |-> cols, split |-> "train",
                                         step |-> p_pc])
    /\ UNCHANGED <<train_accuracy, test_accuracy, opu_open, proj_cols, opu_log>>

\* np.zeros(len(rps_list)) returns
ZerosReturns ==
    /\ AtStep("zeros")
    /\ Returned
    /\ LET z == [k \in 1..Len(rps_list) |-> [num |-> 0, den |-> 1]]
       IN IF Steps(script)[p_pc].split = "train"
          THEN train_accuracy' = z /\ UNCHANGED test_accuracy
          ELSE test_accuracy' = z /\ UNCHANGED train_accuracy
    /\ UNCHANGED <<clf, opu_open, proj_cols, clf_log, opu_log>>

\* clf.score(X[:, :arg], y) returns and its value is stored: as it is in
\* entry idx of the accuracy array, or times 100 in the accuracy scalar; the
\* classifier answers only for as many columns as it was fitted on
ScoreReturns ==
    /\ AtStep("score")
    /\ clf.bound /\ clf.fitted
    /\ rf_cols[Steps(script)[p_pc].split] > 0
    /\ clf.cols = SliceCols(Steps(script)[p_pc].arg,
                            rf_cols[Steps(script)[p_pc].split])
    /\ Returned
    /\ LET st == Steps(script)[p_pc]
           sc == Score(oracle, clf.cols, st.split)
           v  == IF st.pct THEN Percent(sc) ELSE sc
           store(a) == IF st.idx = 0 THEN v ELSE [a EXCEPT ![st.idx] = v]
       IN /\ IF st.split = "train"
             THEN train_accuracy' = store(train_accuracy) /\ UNCHANGED test_accuracy
             ELSE test_accuracy' = store(test_accuracy) /\ UNCHANGED train_accuracy
          /\ clf_log' = Append(clf_log, [op |-> "score", clf |-> clf.id,
                                         cols |-> clf.cols, split |-> st.split,
                                         step |-> p_pc])
    /\ UNCHANGED <<clf, opu_open, proj_cols, opu_log>>

\* "with opu:" enters the context: the session is open
EnterReturns ==
    /\ AtStep("enter")
    /\ Returned
    /\ opu_open' = TRUE
    /\ opu_log' = Append(opu_log, OpuEvent("enter", proj_cols, opu_open, FALSE))
    /\ UNCHANGED <<clf, train_accuracy, test_accuracy, proj_cols, clf_log>>

\* the with-block ends: the session is closed
ExitReturns ==
    /\ AtStep("exit")
    /\ Returned
    /\ opu_open' = FALSE
    /\ opu_log' = Append(opu_log, OpuEvent("exit", proj_cols, opu_open, FALSE))
    /\ UNCHANGED <<clf, train_accuracy, test_accuracy, proj_cols, clf_log>>

\* faulty variant: the exception leaves the with-block without its exit
RaiseEventsNoExit(st) ==
    IF st.kind \in {"new_opu", "transform", "enter", "exit"}
    THEN << OpuEvent(st.kind, IF st.kind = "new_opu" THEN st.arg ELSE proj_cols,
                     opu_open, TRUE) >>
    ELSE <<>>

\* the calls to the vendor SDK that a raising call adds to the log: the call
\* itself if it is one, and the exit of the with-block the exception leaves
RaiseEvents(st) ==
    (IF st.kind \in {"new_opu", "transform", "enter", "exit"}
     THEN << OpuEvent(st.kind, IF st.kind = "new_opu" THEN st.arg ELSE proj_cols,
                      opu_open, TRUE) >>
     ELSE <<>>)
    \o (IF st.ctx = "opu" /\ st.kind # "exit"
        THEN << OpuEvent("exit", proj_cols, opu_open, FALSE) >>
        ELSE <<>>)

\* the call raises: the exception leaves the functions the call was made in
\* and the cell; a with-block it leaves closes its session on the way
CallRaises ==
    /\ p_exc = <<>>
    /\ p_pc <= Len(Steps(script))
    /\ LET st  == Steps(script)[p_pc]
           exc == <<[call |-> st.call, step |-> p_pc]>>
       IN /\ p_raised' = exc
          /\ p_exc' = Propagate(exc, st.fn)
          /\ opu_open' = IF st.ctx = "opu" THEN FALSE ELSE opu_open
          /\ stage_log' = Logged(stage_log, st)
          /\ opu_log' = opu_log \o RaiseEvents(st)
    /\ attempts' = [attempts EXCEPT ![p_pc] = @ + 1]
    /\ UNCHANGED <<script, oracle, p_pc, env, clf, train_accuracy, test_accuracy,
                   proj_cols, rf_cols, clf_log>>

-----------------------------------------------------------------------------
(* The calls to the vendor SDK (src/unnamed/part_000:459-462,              *)
(* src/crash_course_double_descent_curve.ipynb:156-185,                    *)
(* src/julia-opu.jl:11-20)                                                 *)
(*                                                                         *)
(* A tensor is a record of its shape and of its entries in row-major       *)
(* order.  One behaviour follows the data of one split from its source     *)
(* through the script's conversions to the calls made with it.             *)

RECURSIVE Prod(_)
\* the product of the entries of a shape
Prod(shape) == IF shape = <<>> THEN 1 ELSE shape[1] * Prod(Tail(shape))

\* the tensors of a shape with entries from vals
Tensors(shape, vals) ==
    {[shape |-> shape, data |-> d] : d \in [1..Prod(shape) -> vals]}

\* x.view(n, -1)
View(x, n) == [shape |-> <<n, Len(x.data) \div n>>, data |-> x.data]

\* conv_features > 0
Threshold(x) ==
    [shape |-> x.shape, data |-> [k \in 1..Len(x.data) |-> Encode(x.data[k])]]

\* (torch.sign(self.encoder(x)) + 1) / 2
EncodeTensor(x) ==
    [shape |-> x.shape, data |-> [k \in 1..Len(x.data) |-> encode(x.data[k])]]

\* faulty variant: the fraction is kept, scaled to an integer
TruncIntScaled(q) == q.num

\* the conversion of a float to an integer by .int(): towards zero
TruncInt(q) ==
    IF q.num >= 0 THEN q.num \div q.den ELSE -((-q.num) \div q.den)

\* x.int()
IntTensor(x) ==
    [shape |-> x.shape, data |-> [k \in 1..Len(x.data) |-> TruncInt(x.data[k])]]

\* one value of np.random.randint(low, high, dtype=np.uint8) from the
\* generator's raw output: low is inclusive, high exclusive
Randint(low, high, raw) == (low + (raw % (high - low))) % 256

\* np.random.randint(0, 2, size=shape, dtype=np.uint8)
RandintTensor(x) ==
    [shape |-> x.shape, data |-> [k \in 1..Len(x.data) |-> Randint(0, 2, x.data[k])]]

\* what the pretrained model outputs for an image
ModelValues == {-1, 0, 1}

\* what the generator's raw output is
RawDraws == {0, 1, 5}

SdkScripts == {"fe", "dd", "jl"}

\* the method of the vendor object a script calls
SdkMethod(s) == IF s = "fe" THEN "transform" ELSE "transform1d"

\* the n_components a script constructs the vendor object with
SdkNComponents(s) ==
    CASE s = "fe" -> fe_n_components
      [] s = "dd" -> max_rps
      [] s = "jl" -> jl_n_components

\* how often a script calls the method on the data followed: once per split
\* in the notebooks, twice on the same x in the Julia script
SdkCallsOf(s) == IF s = "jl" THEN 2 ELSE 1

\* the data before the script converts it: the filled float tensor
\* conv_features, self.encoder(X) of shape (n, channels, height, width), or
\* the generator's output for size=(n, m)
SdkSources(s) ==
    UNION {CASE s = "fe" -> Tensors(<<n, SdkFeatures>>, ModelValues)
             [] s = "dd" -> Tensors(<<n, SdkFeatures, 1, 1>>, PreActs)
             [] s = "jl" -> Tensors(<<n, SdkFeatures>>, RawDraws)
           : n \in 1..MaxSdkSamples}

SdkInit ==
    /\ k_script \in SdkScripts
    /\ k_split \in (IF k_script = "jl" THEN {"x"} ELSE Splits)
    /\ k_raw \in SdkSources(k_script)
    /\ k_pc = "convert"
    /\ k_x = <<>>
    /\ k_obj = <<>>
    /\ k_calls = <<>>

SdkOff ==
    /\ k_script = "off"
    /\ k_split = "off"
    /\ k_raw = <<>>
    /\ k_pc = "off"
    /\ k_x = <<>>
    /\ k_obj = <<>>
    /\ k_calls = <<>>

\* the script computes the array it will pass: conv_features > 0 in
\* get_conv_features; ae.encode(X).view(X.shape[0], -1).detach() and, in the
\* argument of the call, .int(); np.random.randint(0, 2, ...)
SdkConvert ==
    /\ k_pc = "convert"
    /\ k_x' = CASE k_script = "fe" -> <<Threshold(k_raw)>>
                [] k_script = "dd" ->
                       <<IntTensor(View(EncodeTensor(k_raw), k_raw.shape[1]))>>
                [] k_script = "jl" -> <<RandintTensor(k_raw)>>
    /\ k_pc' = "new"
    /\ UNCHANGED <<k_script, k_split, k_raw, k_obj, k_calls>>

\* OPUMap(n_components=n_components), OPU(n_components=max_rps),
\* lgopu.OPU(n_components=10000)
SdkConstruct ==
    /\ k_pc = "new"
    /\ k_obj' = <<[n_components |-> SdkNComponents(k_script)]>>
    /\ k_pc' = "transform"
    /\ UNCHANGED <<k_script, k_split, k_raw, k_x, k_calls>>

\* opu.transform(X), opu.transform1d(X)
SdkTransform ==
    /\ k_pc = "transform"
    /\ k_calls' = Append(k_calls, [method |-> SdkMethod(k_script),
                                   obj |-> k_obj, x |-> k_x[1]])
    /\ k_pc' = IF Len(k_calls') = SdkCallsOf(k_script) THEN "done" ELSE "transform"
    /\ UNCHANGED <<k_script, k_split, k_raw, k_x, k_obj>>

-----------------------------------------------------------------------------
(* Specifications: one per function, the other groups parked.              *)

InitConv == ConvInit /\ GpuOff /\ TrainOff /\ EncOff /\ PipeOff /\ SdkOff

OthersConv == <<gpuVars, trainVars, encVars, pipeVars, sdkVars>>

NextConv ==
    \/ ConvBatch /\ UNCHANGED OthersConv
    \/ ConvLoopEnd /\ UNCHANGED OthersConv
    \/ ConvEncode /\ UNCHANGED OthersConv

SpecConv == InitConv /\ [][NextConv]_vars

InitGpu == GpuInit /\ ConvOff /\ TrainOff /\ EncOff /\ PipeOff /\ SdkOff

OthersGpu == <<convVars, trainVars, encVars, pipeVars, sdkVars>>

NextGpu ==
    \/ GenerateBlock /\ UNCHANGED OthersGpu
    \/ GenerateReturn /\ UNCHANGED OthersGpu
    \/ GpuStart /\ UNCHANGED OthersGpu
    \/ GpuBlock /\ UNCHANGED OthersGpu
    \/ GpuConcat /\ UNCHANGED OthersGpu

SpecGpu == InitGpu /\ [][NextGpu]_vars

InitTrain == TrainInit /\ ConvOff /\ GpuOff /\ EncOff /\ PipeOff /\ SdkOff

OthersTrain == <<convVars, gpuVars, encVars, pipeVars, sdkVars>>

NextTrain ==
    \/ EpochStart /\ UNCHANGED OthersTrain
    \/ TrainBatch /\ UNCHANGED OthersTrain
    \/ EpochEnd /\ UNCHANGED OthersTrain
    \/ TrainEnd /\ UNCHANGED OthersTrain

SpecTrain == InitTrain /\ [][NextTrain]_vars

InitEnc == EncInit /\ ConvOff /\ GpuOff /\ TrainOff /\ PipeOff /\ SdkOff

OthersEnc == <<convVars, gpuVars, trainVars, pipeVars, sdkVars>>

NextEnc ==
    \/ EncodeTrain /\ UNCHANGED OthersEnc
    \/ EncodeTest /\ UNCHANGED OthersEnc

SpecEnc == InitEnc /\ [][NextEnc]_vars

InitPipe == PipeInit /\ ConvOff /\ GpuOff /\ TrainOff /\ EncOff /\ SdkOff

OthersPipe == <<convVars, gpuVars, trainVars, encVars, sdkVars>>

NextPipe ==
    \/ CallReturns /\ UNCHANGED OthersPipe
    \/ NewClfReturns /\ UNCHANGED OthersPipe
    \/ FitReturns /\ UNCHANGED OthersPipe
    \/ ZerosReturns /\ UNCHANGED OthersPipe
    \/ ScoreReturns /\ UNCHANGED OthersPipe
    \/ NewOpuReturns /\ UNCHANGED OthersPipe
    \/ BlockReturns /\ UNCHANGED OthersPipe
    \/ TransformReturns /\ UNCHANGED OthersPipe
    \/ EnterReturns /\ UNCHANGED OthersPipe
    \/ ExitReturns /\ UNCHANGED OthersPipe
    \/ CallRaises /\ UNCHANGED OthersPipe

SpecPipe == InitPipe /\ [][NextPipe]_vars

InitSdk == SdkInit /\ ConvOff /\ GpuOff /\ TrainOff /\ EncOff /\ PipeOff

OthersSdk == <<convVars, gpuVars, trainVars, encVars, pipeVars>>

NextSdk ==
    \/ SdkConvert /\ UNCHANGED OthersSdk
    \/ SdkConstruct /\ UNCHANGED OthersSdk
    \/ SdkTransform /\ UNCHANGED OthersSdk

SpecSdk == InitSdk /\ [][NextSdk]_vars

-----------------------------------------------------------------------------
(* Claims about get_conv_features.                                         *)

\* C1: when the batch loop of get_conv_features has ended, every row
\* 1..n_images of conv_features and of labels has been written exactly once,
\* nothing was written outside these rows (no value of a batch was dropped and
\* no slice assignment was refused), and row k of conv_features and labels[k]
\* hold the model output and the target of the same sample, whatever order
\* the loader served the samples in.
C1_OneEntryPerSample ==
    /\ c_pc # "error"
    /\ oob_writes = 0
    /\ Len(conv_features) = n_images
    /\ Len(labels) = n_images
    /\ c_pc \in {"encode", "done"} =>
          \A k \in 1..n_images :
              /\ cf_writes[k] = 1
              /\ lab_writes[k] = 1
              /\ cf_src[k] = lab_src[k]
              /\ cf_src[k] = order[k]
              /\ labels[k] = <<Target(order[k], dshift)>>
              /\ \A j \in 1..OutShape :
                    conv_features[k][j] = <<ModelOutput(order[k], j, dshift)>>

\* C1 witness: the loop has ended on a shuffled loader whose last batch is
\* shorter than the others.
C1_Witness ==
    /\ c_pc = "encode"
    /\ n_images = 3
    /\ batch_size = 2
    /\ order = <<3, 1, 2>>
    /\ cf_writes = <<1, 1, 1>>

\* C2: the matrix get_conv_features returns has the shape (n_images,
\* out_shape) of the float tensor, and its entry (k, j) is True exactly when
\* the model output stored for (k, j) is strictly greater than 0; it is False
\* for 0 and for negative outputs.
C2_BooleanEncoding ==
    c_pc = "done" =>
        /\ Len(conv_encoded) = n_images
        /\ \A k \in 1..n_images :
              /\ DOMAIN conv_encoded[k] = 1..OutShape
              /\ \A j \in 1..OutShape :
                    /\ conv_features[k][j] # <<>>
                    /\ conv_encoded[k][j] \in BOOLEAN
                    /\ conv_encoded[k][j] <=> (conv_features[k][j][1] >= 1)
                    /\ conv_features[k][j][1] <= 0 => ~conv_encoded[k][j]

\* C2 witness: a returned matrix whose stored outputs include a negative
\* value, a zero and a positive value.
C2_Witness ==
    /\ c_pc = "done"
    /\ \E k \in 1..n_images : \E j \in 1..OutShape :
          conv_features[k][j] = <<0>> /\ conv_encoded[k][j] = FALSE
    /\ \E k \in 1..n_images : \E j \in 1..OutShape :
          conv_features[k][j] = <<1>> /\ conv_encoded[k][j] = TRUE
    /\ \E k \in 1..n_images : \E j \in 1..OutShape :
          conv_features[k][j] = <<-1>> /\ conv_encoded[k][j] = FALSE

-----------------------------------------------------------------------------
(* Claims about generate_RM and get_rand_features_GPU.                     *)

\* the blocks generate_RM returned, in the order of the list R
Blocks == [b \in 1..Len(R) |-> heap[R[b]]]

\* generate_RM has returned
Generated == g_pc \in {"rm_done", "gpu_loop", "done"}

\* C3: the widths of the blocks generate_RM returns sum to n_components, and
\* the matrix get_rand_features_GPU returns has exactly n_components columns,
\* for every n_components >= 1 and n_ram >= 1.
C3_ColumnsAreNComponents ==
    /\ Generated => SumCols(Blocks, Len(R)) = n_components
    /\ g_pc = "done" =>
          /\ result.cols = n_components
          /\ \A k \in 1..result.rows : Len(result.data[k]) = n_components

\* C4: generate_RM returns a list of exactly n_ram blocks, every block has
\* the shape (n_features, n_components // n_ram), and no two entries of the
\* list are the same array.
C4_FixedSizeChunks ==
    /\ g_pc = "rm_loop" => Len(R) = rm_i
    /\ Generated =>
          /\ Len(R) = n_ram
          /\ \A b \in 1..Len(R) :
                /\ R[b] \in 1..Len(heap)
                /\ Blocks[b].rows = n_features
                /\ Blocks[b].cols = n_components \div n_ram
                /\ DOMAIN Blocks[b].data = 1..n_features
                /\ \A r \in 1..n_features :
                      DOMAIN Blocks[b].data[r] = 1..(n_components \div n_ram)
          /\ \A a, b \in 1..Len(R) : a # b => R[a] # R[b]

\* C4 witness: generate_RM has returned the default number of blocks, 10,
\* each one column wide.
C4_Witness ==
    /\ g_pc = "rm_done"
    /\ n_ram = 10
    /\ Len(R) = 10
    /\ n_components = 12
    /\ \A b \in 1..Len(R) : Blocks[b].cols = 1

\* C5: with normalize=True every entry of every block is the drawn value
\* divided by sqrt(n_features); with any other normalize it is the drawn value.
C5_NormalizedByNFeatures ==
    Generated =>
        \A b \in 1..Len(R) : \A r \in 1..Blocks[b].rows : \A c \in 1..Blocks[b].cols :
            IF normalize = "True"
            THEN RealEq(Blocks[b].data[r][c], [n |-> drawn[b][r][c], s |-> n_features])
            ELSE RealEq(Blocks[b].data[r][c], [n |-> drawn[b][r][c], s |-> 1])

\* the single matrix [R_0 | ... | R_{n-1}] of width n_ram * w
Unsplit ==
    LET w == n_components \div n_ram
    IN [rows |-> n_features, cols |-> n_ram * w,
        data |-> [r \in 1..n_features |-> [c \in 1..(n_ram * w) |->
                    Blocks[((c - 1) \div w) + 1].data[r][((c - 1) % w) + 1]]]]

\* C6: the matrix get_rand_features_GPU returns has one row per sample and
\* n_ram * w columns; its column b * w + j (b from 0, j from 1) is the squared
\* modulus of X times column j of block b, for every row; and it is the
\* squared modulus of X times the unsplit matrix [R_0 | ... | R_{n-1}].
C6_SplitEqualsUnsplit ==
    /\ g_pc # "error"
    /\ g_pc = "done" =>
          LET w == n_components \div n_ram
          IN /\ result.rows = Len(X)
             /\ result.cols = n_ram * w
             /\ \A k \in 1..Len(X) :
                   /\ Len(result.data[k]) = n_ram * w
                   /\ \A b \in 0..(n_ram - 1) : \A j \in 1..w :
                         result.data[k][b * w + j] =
                             AbsSq(DotColumn(X[k], Blocks[b + 1], j))
             /\ result = compute_dot_split(X, Unsplit)

\* C6 witness: a projection of two samples through two blocks two columns
\* wide, whose partial outputs differ.
C6_Witness ==
    /\ g_pc = "done"
    /\ n_ram = 2
    /\ n_components = 4
    /\ Len(X) = 2
    /\ result.cols = 4
    /\ random_features[1] # random_features[2]
    /\ \E k \in 1..2 : \E c \in 1..4 : result.data[k][c].num > 0

-----------------------------------------------------------------------------
(* Claims about the double-descent notebook's autoencoder.                 *)

\* C7: beta is doubled once per epoch: ae.beta is beta0 * 2^e while the
\* batches of epoch e run and after e epochs have ended, so it never changes
\* inside the batch loop; every forward pass of epoch e ran with beta0 * 2^e;
\* and when the training is over beta is beta0 * 2^n_epochs, which is 1024
\* for the default beta0 = 1 and n_epochs = 10.
C7_BetaDoublesPerEpoch ==
    /\ beta = beta0 * Pow2(epochs_done)
    /\ t_pc = "batches" => epoch = epochs_done
    /\ \A run \in fwd_runs : run.beta = beta0 * Pow2(run.epoch)
    /\ t_pc = "done" =>
          /\ beta = beta0 * Pow2(n_epochs)
          /\ (beta0 = 1 /\ n_epochs = 10) => beta = 1024
          /\ {run.epoch : run \in fwd_runs} = 0..(n_epochs - 1)

\* C7 witness: the training from the default beta = 1 is over, after more
\* than one batch per epoch, with beta at 1024.
C7_Witness ==
    /\ t_pc = "done"
    /\ beta0 = 1
    /\ n_batches = 2
    /\ opt_steps = 20
    /\ beta = 1024

\* C8: every entry of X_train_binary and of X_test_binary is exactly 0 or 1,
\* whatever the sign of the encoder's output for it (negative, zero or
\* positive).
C8_EncodeIsBinary ==
    /\ \A k \in 1..Len(X_train_binary) : IsZeroOrOne(X_train_binary[k])
    /\ \A k \in 1..Len(X_test_binary) : IsZeroOrOne(X_test_binary[k])

-----------------------------------------------------------------------------
(* Claims about the scripts.                                               *)

\* whether the rational q lies in [0, 1]
InUnit(q) == 0 <= q.num /\ q.num <= q.den

\* whether the rational q lies in [0, 100]
InPercent(q) == 0 <= q.num /\ q.num <= 100 * q.den

\* the double-descent notebook's accuracies: every entry of both arrays
DDAccuraciesInUnit ==
    script = "dd" =>
        /\ \A k \in 1..Len(train_accuracy) : InUnit(train_accuracy[k])
        /\ \A k \in 1..Len(test_accuracy) : InUnit(test_accuracy[k])

\* C9 as stated: every accuracy the scripts store lies in [0, 1], the
\* entries of the double-descent notebook's arrays and the two accuracies the
\* feature-extraction notebook reports.
C9_AccuraciesInUnit ==
    /\ DDAccuraciesInUnit
    /\ script \in {"fe_gpu", "fe_opu"} =>
          /\ "train_accuracy" \in env => InUnit(train_accuracy)
          /\ "test_accuracy" \in env => InUnit(test_accuracy)

\* C9 as amended: every entry of the double-descent notebook's train_accuracy
\* and test_accuracy lies in [0, 1]; the feature-extraction notebook's
\* train_accuracy and test_accuracy are the scores times 100 and lie in
\* [0, 100].
C9_AccuraciesInRange ==
    /\ DDAccuraciesInUnit
    /\ script \in {"fe_gpu", "fe_opu"} =>
          /\ "train_accuracy" \in env =>
                /\ InPercent(train_accuracy)
                /\ train_accuracy.num = 100 * Correct(oracle, fe_n_components, "train")
                /\ train_accuracy.den = NumScored
          /\ "test_accuracy" \in env =>
                /\ InPercent(test_accuracy)
                /\ test_accuracy.num = 100 * Correct(oracle, fe_n_components, "test")
                /\ test_accuracy.den = NumScored

\* C9 witness: the feature-extraction notebook has reported a train accuracy
\* of 100 (every sample right), which is above 1, and a test accuracy.
C9_Witness ==
    /\ script = "fe_gpu"
    /\ p_pc = Len(Steps(script)) + 1
    /\ {"train_accuracy", "test_accuracy"} \subseteq env
    /\ train_accuracy.num = 100 * train_accuracy.den
    /\ train_accuracy.num > train_accuracy.den

\* the names bound by the calls before call k of the script
BoundBefore(k) == UNION {Steps(script)[j].binds : j \in 1..(k - 1)}

\* C10: no call is made twice, and once a library call has raised, the
\* exception that ends the script is the one that call raised, the script
\* stays at that call, no later call has been made, no name that the raising
\* statement or a later one assigns has been bound by them (a function that
\* raised returned nothing).
C10_RaisePropagates ==
    /\ \A k \in 1..Len(attempts) : attempts[k] <= 1
    /\ p_raised = <<>> => p_exc = <<>> /\ env = BoundBefore(p_pc)
    /\ p_raised # <<>> =>
          /\ p_exc = p_raised
          /\ p_exc[1].call = Steps(script)[p_exc[1].step].call
          /\ p_pc = p_exc[1].step
          /\ attempts[p_pc] = 1
          /\ \A k \in (p_pc + 1)..Len(attempts) : attempts[k] = 0
          /\ env = BoundBefore(p_pc)

\* C10 witness: cp.dot raised inside compute_dot_split, inside
\* get_rand_features_GPU, on a later block of the train projection: R is
\* bound, train_random_features is not.
C10_Witness ==
    /\ script = "fe_gpu"
    /\ p_exc # <<>>
    /\ p_exc[1].call = "cp.dot"
    /\ Steps(script)[p_pc].fn = <<"get_rand_features_GPU", "compute_dot_split">>
    /\ Steps(script)[p_pc - 3].call = "cp.dot"
    /\ attempts[p_pc - 3] = 1
    /\ "R" \in env
    /\ "train_random_features" \notin env

-----------------------------------------------------------------------------
(* Claims about the two projection backends.                               *)

\* the variants of the feature-extraction notebook
FEScripts == {"fe_gpu", "fe_opu"}

\* what both backends deliver to the cell that fits the classifier: once the
\* projection of a split has returned, the projected matrix is bound to the
\* same name in both variants and has n_components columns, the targets of
\* the call site are bound and are as many as the function returns; the
\* classifier is fitted and scored on n_components columns by the same calls
\* in both variants
C11_Delivered ==
    script \in FEScripts =>
        /\ \A s \in Splits :
              rf_cols[s] > 0 =>
                  LET c == CallSite(script, s)
                  IN /\ rf_cols[s] = fe_n_components
                     /\ c.targets[1] \in ProjectedName[s]
                     /\ c.targets[1] = CallSite("fe_gpu", s).targets[1]
                     /\ c.targets[1] = CallSite("fe_opu", s).targets[1]
                     /\ Range(c.targets) \subseteq env
                     /\ Len(c.targets) = Len(Signature(c.fn).returns)
                     /\ Len(c.args) = Len(Signature(c.fn).params)
        /\ clf.fitted => clf.cols = fe_n_components
        /\ \A k \in 1..Len(clf_log) : clf_log[k].cols = fe_n_components
        /\ SubSeq(Steps(script), Len(Steps(script)) - Len(FEFitSteps) + 1,
                  Len(Steps(script))) = FEFitSteps

-----------------------------------------------------------------------------
(* Claims about the calls to the vendor SDK.                               *)

\* whether x is a 2-D array with one row per sample of the source
IsMatrixOf(x, raw) ==
    /\ Len(x.shape) = 2
    /\ x.shape[1] = raw.shape[1]
    /\ x.shape[1] * x.shape[2] = Len(raw.data)
    /\ Len(x.data) = x.shape[1] * x.shape[2]

\* C12: every call of transform or transform1d is made on an object that
\* was constructed with the script's n_components, and is passed a 2-D array
\* of shape (n_samples, n_features) all of whose entries are binary: True or
\* False (the features thresholded at 0) in the feature-extraction notebook,
\* 0 or 1 in the double-descent notebook (1 exactly for a positive encoder
\* output) and in the Julia script (the parity of the generator's output).
C12_BinaryInputs ==
    \A c \in 1..Len(k_calls) :
        LET call == k_calls[c]
        IN /\ call.method \in {"transform", "transform1d"}
           /\ call.obj # <<>>
           /\ call.obj[1].n_components = SdkNComponents(k_script)
           /\ call.obj[1].n_components >= 1
           /\ IsMatrixOf(call.x, k_raw)
           /\ \A k \in 1..Len(call.x.data) :
                 CASE k_script = "fe" ->
                          /\ call.x.data[k] \in BOOLEAN
                          /\ call.x.data[k] <=> (k_raw.data[k] > 0)
                   [] k_script = "dd" ->
                          /\ call.x.data[k] \in {0, 1}
                          /\ call.x.data[k] = 1 <=> k_raw.data[k] > 0
                   [] k_script = "jl" ->
                          /\ call.x.data[k] \in {0, 1}
                          /\ call.x.data[k] = k_raw.data[k] % 2

\* C12 witness: the double-descent notebook has passed transform1d a 2-D
\* array of two samples whose encoder outputs include a zero, encoded as
\* 0.5 and passed as 0.
C12_Witness ==
    /\ k_script = "dd"
    /\ k_pc = "done"
    /\ Len(k_calls) = 1
    /\ k_raw.shape = <<2, 2, 1, 1>>
    /\ k_raw.data = <<0, 3, -2, 0>>
    /\ k_calls[1].x = [shape |-> <<2, 2>>, data |-> <<0, 1, 0, 0>>]

-----------------------------------------------------------------------------
(* Claims about the order of the stages.                                   *)

\* whether no entry of the log is smaller than the one before it
NonDecreasing(log) == \A k \in 1..(Len(log) - 1) : log[k] <= log[k + 1]

\* whether the sequence a is a prefix of the sequence b
IsPrefix(a, b) == Len(a) <= Len(b) /\ a = SubSeq(b, 1, Len(a))

\* this step makes the next call of the script, of the given kind (the call
\* may return or raise)
CallMade(kind) ==
    /\ p_pc <= Len(Steps(script))
    /\ Steps(script)[p_pc].kind = kind
    /\ attempts' # attempts

\* clf.fit is called only when a classifier is bound and both projected
\* matrices are bound, that is after both projections have returned
FitAfterProjections ==
    CallMade("fit") =>
        /\ clf.bound
        /\ \A s \in Splits : rf_cols[s] > 0 /\ ProjectedName[s] \cap env # {}

\* clf.score is called only on the classifier that the last fit that
\* returned has fitted
ScoreAfterFit ==
    CallMade("score") =>
        /\ clf.bound
        /\ clf.fitted
        /\ clf_log # <<>>
        /\ \E k \in 1..Len(clf_log) :
              /\ clf_log[k].op = "fit"
              /\ clf_log[k].clf = clf.id
              /\ \A j \in (k + 1)..Len(clf_log) : clf_log[j].op = "score"

\* C13 as stated: the stages run strictly one after the other (no call of a
\* stage is made once a call of a later stage has been made: load, extract,
\* project, fit, score and report), clf.fit is never called before both
\* projections have returned, and clf.score is never called on a classifier
\* that has not been fitted.
C13_StagesStrictlyInSequence ==
    /\ [](NonDecreasing(stage_log))
    /\ [][FitAfterProjections /\ ScoreAfterFit]_vars

\* C13 as amended: dataset load, feature extraction, the projection of the
\* train and the test features and the classifier stage follow one another
\* in this order; in the feature-extraction notebook the classifier is
\* fitted once and then scored; in the double-descent notebook the
\* classifier stage is a sweep in which fit and scoring alternate, one fit
\* followed by its two scores for each entry of rps_list, and the plot comes
\* after the last score; clf.fit is never called before both projections
\* have returned, and clf.score is never called on a classifier that has not
\* been fitted.
C13_StagesInSequence ==
    /\ [](/\ script \in FEScripts => IsPrefix(stage_log, <<1, 2, 3, 4, 5>>)
          /\ script = "jl" => IsPrefix(stage_log, <<1, 3, 5>>)
          /\ script = "dd" =>
                IsPrefix(stage_log, <<1, 2, 3>> \o Rep(Len(rps_list), <<4, 5>>)))
    /\ [][FitAfterProjections /\ ScoreAfterFit]_vars

\* C13 witness: the double-descent sweep is in its second pass: the second
\* classifier is fitted after the scores of the first were taken.
C13_Witness ==
    /\ script = "dd"
    /\ p_exc = <<>>
    /\ stage_log = <<1, 2, 3, 4, 5, 4>>
    /\ clf.id = 2
    /\ clf.fitted
    /\ Len(clf_log) = 4
    /\ rf_cols = [train |-> max_rps, test |-> max_rps]

-----------------------------------------------------------------------------
(* Claims about the double-descent sweep.                                  *)

\* the fits among the first n entries of the log of fits and scores
FitsIn(log, n) == {k \in 1..n : log[k].op = "fit"}

\* the entry of the log of fits and scores expected at position k: pass
\* i = (k - 1) \div 3 + 1 of the sweep fits classifier i and scores it on
\* train and on test, each on the first rps_list[i] columns
SweepEntry(k) ==
    LET i == ((k - 1) \div 3) + 1
        r == (k - 1) % 3
    IN [op |-> IF r = 0 THEN "fit" ELSE "score",
        clf |-> i,
        cols |-> rps_list[i],
        split |-> IF r = 2 THEN "test" ELSE "train",
        step |-> clf_log[k].step]

\* C14: rps_list holds 41 strictly increasing values from 2000 to 20000;
\* the OPU is constructed with n_components = max(rps_list) = 20000 and both
\* projected matrices have that many columns, so no slice is truncated; pass
\* i of the sweep (i from 1) fits a classifier that no earlier pass used and
\* scores it on train and test, each on exactly the first rps_list[i]
\* columns, which are a prefix of those of pass i + 1; and once stored,
\* train_accuracy[i] and test_accuracy[i] are the scores for rps_list[i].
C14_SweepColumns ==
    script = "dd" =>
        /\ Len(rps_list) = 41
        /\ rps_list[1] = 2000
        /\ rps_list[Len(rps_list)] = 20000
        /\ \A i \in 1..(Len(rps_list) - 1) : rps_list[i] < rps_list[i + 1]
        /\ max_rps = 20000
        /\ \A e \in 1..Len(opu_log) : opu_log[e].n = max_rps
        /\ \A s \in Splits :
              rf_cols[s] > 0 =>
                  /\ rf_cols[s] = max_rps
                  /\ \A i \in 1..Len(rps_list) :
                        SliceCols(rps_list[i], rf_cols[s]) = rps_list[i]
        /\ Len(clf_log) <= 3 * Len(rps_list)
        /\ \A k \in 1..Len(clf_log) : clf_log[k] = SweepEntry(k)
        /\ \A j, k \in FitsIn(clf_log, Len(clf_log)) :
              j < k => clf_log[j].clf # clf_log[k].clf /\ clf_log[j].cols < clf_log[k].cols
        /\ clf.id = (Len(clf_log) + 2) \div 3 \/ clf.id = (Len(clf_log) \div 3) + 1
        /\ \A i \in 1..Len(train_accuracy) :
              train_accuracy[i] =
                  IF Len(clf_log) >= 3 * (i - 1) + 2
                  THEN Score(oracle, rps_list[i], "train")
                  ELSE [num |-> 0, den |-> 1]
        /\ \A i \in 1..Len(test_accuracy) :
              test_accuracy[i] =
                  IF Len(clf_log) >= 3 * i
                  THEN Score(oracle, rps_list[i], "test")
                  ELSE [num |-> 0, den |-> 1]

\* C14 witness: the sweep is over: 41 classifiers were fitted, the last one
\* on all 20000 columns, and the accuracies at the interpolation point 9750
\* (entry 18) differ from those of the entries next to it.
C14_Witness ==
    /\ script = "dd"
    /\ p_pc = Len(Steps(script)) + 1
    /\ Len(clf_log) = 123
    /\ clf.id = 41
    /\ clf.cols = 20000
    /\ rps_list[18] = 9750
    /\ train_accuracy[18] = Score(oracle, 9750, "train")
    /\ train_accuracy[18] # train_accuracy[17]
    /\ oracle = 0

-----------------------------------------------------------------------------
(* Claims about the OPU session of the double-descent notebook.            *)

\* the positions of the log of SDK calls that hold the call ev
EventsOf(ev) == {k \in 1..Len(opu_log) : opu_log[k].ev = ev}

\* the positions at which the session was opened: an enter that returned
Opens == {k \in EventsOf("enter") : ~opu_log[k].raised}

\* C15: in the double-descent notebook one OPU object is constructed, with
\* n_components = max(rps_list); its session is opened at most once and
\* closed at most once, and it is open exactly between the two; every
\* transform1d call is made on that object while the session is open, after
\* the opening and before the closing; when the script has ended normally
\* the session was opened once, both transforms were made in it, and it was
\* closed once; and when a transform has raised, the session was closed once
\* and is closed.
C15_OneSession ==
    script = "dd" =>
        /\ Cardinality(EventsOf("new_opu")) <= 1
        /\ Cardinality(EventsOf("enter")) <= 1
        /\ Cardinality(EventsOf("exit")) <= 1
        /\ opu_open <=> (Opens # {} /\ EventsOf("exit") = {})
        /\ \A t \in EventsOf("transform") :
              /\ opu_log[t].open
              /\ opu_log[t].n = max_rps
              /\ \E n \in EventsOf("new_opu") : n < t /\ opu_log[n].n = max_rps
              /\ \E e \in Opens : e < t
              /\ \A x \in EventsOf("exit") : t < x
        /\ p_pc = Len(Steps(script)) + 1 =>
              /\ Cardinality(Opens) = 1
              /\ Cardinality(EventsOf("exit")) = 1
              /\ Cardinality(EventsOf("transform")) = 2
              /\ ~opu_open
              /\ {"X_train_rf", "X_test_rf"} \subseteq env
        /\ (p_raised # <<>> /\ Steps(script)[p_pc].kind = "transform") =>
              /\ Cardinality(Opens) = 1
              /\ Cardinality(EventsOf("exit")) = 1
              /\ opu_log[Len(opu_log)].ev = "exit"
              /\ opu_log[Len(opu_log) - 1].ev = "transform"
              /\ opu_log[Len(opu_log) - 1].raised
              /\ ~opu_open

\* C15 witness: the transform of the test data has raised in the session in
\* which the transform of the train data returned, and the session is closed.
C15_Witness ==
    /\ script = "dd"
    /\ p_raised # <<>>
    /\ p_raised[1].call = "opu.transform1d"
    /\ "X_train_rf" \in env
    /\ "X_test_rf" \notin env
    /\ Len(opu_log) = 5
    /\ opu_log[3] = [ev |-> "transform", n |-> 20000, open |-> TRUE, raised |-> FALSE]
    /\ opu_log[4] = [ev |-> "transform", n |-> 20000, open |-> TRUE, raised |-> TRUE]
    /\ opu_log[5].ev = "exit"
    /\ ~opu_open

=============================================================================
